---- MODULE Spec2Model ----
(***************************************************************************)
(* hr.benefit (addons/hr_payroll/models/hr_benefit.py): the benefit store, *)
(* its write override, the conflict detector, the day splitter, the        *)
(* calendar materializer and action_validate.                              *)
(*                                                                         *)
(* Datetimes are integers: seconds since the epoch, stored naive in UTC.   *)
(* A timezone is a fixed offset in seconds (local = UTC + offset).         *)
(***************************************************************************)
EXTENDS Integers, Sequences, FiniteSets, TLC

VARIABLES
    benefits,      \* hr.benefit table: id -> record
    leaves,        \* hr.leave table: set of records (read only here)
    tz,            \* hr.employee.tz: employee -> UTC offset in seconds
    attendances,   \* resource.calendar.attendance records created
    calLeaves,     \* resource.calendar.leaves records created
    nextId,        \* next id of the hr_benefit sequence
    callers,       \* _safe_duplicate_create calls in flight: caller -> position
    last           \* the last call: operation, arguments, outcome

vars == <<benefits, leaves, tz, attendances, calLeaves, nextId, callers, last>>

----------------------------------------------------------------------------
(* Bounds of the model *)

MaxDay == 3        \* benefits to split lie on the days 1..MaxDay
MaxId == 5         \* ids the hr_benefit sequence may hand out
MaxCalendar == 3   \* calendar records the model lets the materializer create
MaxOffsetHours == 2    \* the zones are UTC and this many hours east and west
MaxHours == 30     \* the longest duration set on a benefit, in hours

(* Program constants *)

DaySecs == 86400   \* one calendar day; 23:59:59 is second DaySecs - 1
HourSecs == 3600
MinuteSecs == 60

Employees == {"e1", "e2"}

\* hr.benefit.type records: the global attendance type
\* (hr_payroll.benefit_type_attendance), another non-leave type, a leave type.
BenefitTypes == {"attendance", "extra", "leave"}
NoType == "none"                       \* benefit_type_id left empty
is_leave(t) == t = "leave"

States == {"draft", "confirmed", "validated", "cancelled"}

NoLeave == 0                           \* leave_id left empty

----------------------------------------------------------------------------
(* Calendar arithmetic on naive datetimes *)

Date(t) == t \div DaySecs              \* datetime.date(), as a day number
TimeOfDay(t) == t % DaySecs
\* datetime.replace(hour=23, minute=59, second=59)
EndOfDay(t) == Date(t) * DaySecs + (23 * HourSecs + 59 * MinuteSecs + 59)
\* pytz.utc.localize(t).astimezone(tz): the local wall clock of a UTC datetime
ToLocal(t, off) == t + off
\* tz.localize(wall).astimezone(pytz.utc): the UTC datetime of a local wall clock
ToUTC(wall, off) == wall - off

Min(S) == CHOOSE x \in S : \A y \in S : x <= y
Max(S) == CHOOSE x \in S : \A y \in S : x >= y

----------------------------------------------------------------------------
(* Record store primitives *)

\* create(): the field defaults of a new hr.benefit
NewBenefit(name, emp, type, start, stop) ==
    [ name |-> name, active |-> TRUE, employee_id |-> emp,
      date_start |-> start, date_stop |-> stop, benefit_type_id |-> type,
      state |-> "draft", display_warning |-> FALSE, leave_id |-> NoLeave ]

\* the key of the _unique SQL constraint
UniqueKey(b) == <<b.date_start, b.date_stop, b.employee_id, b.benefit_type_id>>

\* unique (date_start, date_stop, employee_id, benefit_type_id): a NULL type
\* never collides
UniqueOK(bs) ==
    \A i, j \in DOMAIN bs :
        (i # j /\ bs[i].benefit_type_id # NoType) => UniqueKey(bs[i]) # UniqueKey(bs[j])

\* (mutant) an active flag the caller passes wins over the forced one
WriteValsCallerWins(vals) ==
    IF "state" \in DOMAIN vals /\ vals.state = "draft"
    THEN vals @@ [active |-> TRUE]
    ELSE IF "state" \in DOMAIN vals /\ vals.state = "cancelled"
    THEN vals @@ [active |-> FALSE]
    ELSE vals

\* HrBenefit.write(vals): what the override makes of vals before the fields
\* are assigned: state draft forces active, state cancelled clears it
WriteVals(vals) ==
    IF "state" \in DOMAIN vals /\ vals.state = "draft"
    THEN [active |-> TRUE] @@ vals
    ELSE IF "state" \in DOMAIN vals /\ vals.state = "cancelled"
    THEN [active |-> FALSE] @@ vals
    ELSE vals

\* HrBenefit.write(vals) on one record
write(b, vals) ==
    LET v == WriteVals(vals)
    IN  [f \in DOMAIN b |-> IF f \in DOMAIN v THEN v[f] ELSE b[f]]

\* recordset.write(vals): the same values on every record of ids
WriteAll(bs, ids, vals) ==
    [i \in DOMAIN bs |-> IF i \in ids THEN write(bs[i], vals) ELSE bs[i]]

----------------------------------------------------------------------------
(* search(): the records a domain selects, in the order of _order *)

\* (mutant) the search keeps the validated records of ids
SearchAnyState(bs, ids) == {i \in DOMAIN bs : i \in ids}

\* search([('id', 'in', ids), ('state', '!=', 'validated')])
SearchNotValidated(bs, ids) ==
    {i \in DOMAIN bs : i \in ids /\ bs[i].state # "validated"}

\* search([('date_start', '<', date_stop_benefits),
\*         ('date_stop', '>', date_start_benefits)])
SearchSpan(bs, span_start, span_stop) ==
    {i \in DOMAIN bs : bs[i].date_start < span_stop /\ bs[i].date_stop > span_start}

\* _order = 'display_warning desc,state,date_start': a warning sorts first,
\* states sort by their stored key, then the earlier start.
StateRank(s) ==
    CASE s = "cancelled" -> 0 [] s = "confirmed" -> 1
      [] s = "draft" -> 2 [] s = "validated" -> 3

OrderKey(b) == <<IF b.display_warning THEN 0 ELSE 1, StateRank(b.state), b.date_start>>

KeyLE(k1, k2) ==
    \/ k1[1] < k2[1]
    \/ k1[1] = k2[1] /\ k1[2] < k2[2]
    \/ k1[1] = k2[1] /\ k1[2] = k2[2] /\ k1[3] <= k2[3]

RECURSIVE Ordered(_, _)
\* every order the store may return the records of S in: sorted by _order,
\* records with equal keys in any order
Ordered(bs, S) ==
    IF S = {} THEN {<<>>}
    ELSE UNION { {<<m>> \o rest : rest \in Ordered(bs, S \ {m})} :
                 m \in {m \in S : \A i \in S : KeyLE(OrderKey(bs[m]), OrderKey(bs[i]))} }

----------------------------------------------------------------------------
(* Interval Engine: resource.models.resource.Intervals *)

\* two records overlap: start_A < end_B and start_B < end_A
Overlap(a, b) == a.date_start < b.date_stop /\ b.date_start < a.date_stop

RECURSIVE Merged(_, _, _)
\* the records of G merged into one interval with the records of S
Merged(bs, G, S) ==
    LET more == S \cup {j \in G : \E i \in S : Overlap(bs[i], bs[j])}
    IN  IF more = S THEN S ELSE Merged(bs, G, more)

\* Intervals(intervals=((b.date_start, b.date_stop, b) for b in G)): the
\* maximal merged intervals, each with the records that contribute to it
Intervals(bs, G) ==
    { LET recs == Merged(bs, G, {i})
      IN  [ start |-> Min({bs[j].date_start : j \in recs}),
            stop |-> Max({bs[j].date_stop : j \in recs}),
            recs |-> recs ] : i \in G }

----------------------------------------------------------------------------
(* Conflict Detector *)

\* itertools.groupby(benefs, lambda b: b.employee_id): the runs of
\* consecutive records of one employee, each as the set of its records
GroupBy(bs, ord) ==
    { {ord[q] : q \in {q \in DOMAIN ord :
            \A k \in (IF p < q THEN p..q ELSE q..p) :
                bs[ord[k]].employee_id = bs[ord[p]].employee_id}} : p \in DOMAIN ord }

\* (mutant) an interval of a single record counts as a conflict
IsConflictFromOne(interval) == Cardinality(interval.recs) >= 1

\* len(interval[2]) > 1
IsConflict(interval) == Cardinality(interval.recs) > 1

\* the records _compute_schedule_conflicts flags, given the order `ord`
\* the search returned
ConflictRecs(bs, ord) ==
    UNION { iv.recs : iv \in {iv \in UNION {Intervals(bs, G) : G \in GroupBy(bs, ord)} :
                                IsConflict(iv)} }

\* the records _compute_schedule_conflicts searches, for the recordset self
ScheduleSearch(bs, self) ==
    SearchSpan(bs, Min({bs[i].date_start : i \in self}),
                   Max({bs[i].date_stop : i \in self}))

\* _compute_schedule_conflicts
_compute_schedule_conflicts(bs, self, ord) ==
    LET hit == ConflictRecs(bs, ord)
    IN  [ bs |-> WriteAll(bs, hit, [display_warning |-> TRUE]),
          conflict |-> hit # {} ]

\* (mutant) a leave that only touches the benefit is not a row
LeaveRowsStrict(bs, lvs, self) ==
    { <<r[1], r[2].id>> : r \in
        {r \in self \X lvs :
            /\ bs[r[1]].employee_id = r[2].employee_id
            /\ r[2].date_from < bs[r[1]].date_stop
            /\ r[2].date_to > bs[r[1]].date_start
            /\ r[2].state \in {"confirm", "validate1"}} }

\* the rows of the query of _compute_conflicts_leaves_to_approve
LeaveRows(bs, lvs, self) ==
    { <<r[1], r[2].id>> : r \in
        {r \in self \X lvs :
            /\ bs[r[1]].employee_id = r[2].employee_id
            /\ r[2].date_from <= bs[r[1]].date_stop
            /\ r[2].date_to >= bs[r[1]].date_start
            /\ r[2].state \in {"confirm", "validate1"}} }

\* the ways the rows can leave a leave_id on each benefit they name: every
\* row writes its leave, in the order the query returns the rows
LeavePicks(rows) ==
    LET hit == {r[1] : r \in rows}
    IN  {f \in [hit -> {r[2] : r \in rows}] : \A i \in hit : <<i, f[i]>> \in rows}

\* _compute_conflicts_leaves_to_approve
_compute_conflicts_leaves_to_approve(bs, lvs, self, pick) ==
    [ bs |-> [i \in DOMAIN bs |->
                IF i \in DOMAIN pick
                THEN write(bs[i], [display_warning |-> TRUE, leave_id |-> pick[i]])
                ELSE bs[i]],
      conflict |-> LeaveRows(bs, lvs, self) # {} ]

\* (mutant) records without a type are flagged but do not count as an error
_check_if_error_TypeIgnored(bs, lvs, self, ord, pick) ==
    LET undefined_type == {i \in self : bs[i].benefit_type_id = NoType}
        b1 == WriteAll(bs, undefined_type, [display_warning |-> TRUE])
        c2 == _compute_schedule_conflicts(b1, self, ord)
        c3 == _compute_conflicts_leaves_to_approve(c2.bs, lvs, self, pick)
    IN  [ bs |-> c3.bs, error |-> c2.conflict \/ c3.conflict ]

\* _check_if_error on a non-empty recordset
_check_if_error(bs, lvs, self, ord, pick) ==
    LET undefined_type == {i \in self : bs[i].benefit_type_id = NoType}
        b1 == WriteAll(bs, undefined_type, [display_warning |-> TRUE])
        c2 == _compute_schedule_conflicts(b1, self, ord)
        c3 == _compute_conflicts_leaves_to_approve(c2.bs, lvs, self, pick)
    IN  [ bs |-> c3.bs,
          error |-> undefined_type # {} \/ c2.conflict \/ c3.conflict ]

----------------------------------------------------------------------------
(* Day Splitter *)

RECURSIVE SplitLoop(_, _, _)
\* the while loop of _split_range_by_day and the append after it
SplitLoop(current_start, current_end, end) ==
    IF current_end < end
    THEN <<<<current_start, current_end>>>>
            \o SplitLoop(current_end + 1, current_end + DaySecs, end)
    ELSE <<<<current_start, end>>>>

\* the filter of _split_range_by_day: intervals starting and ending at the
\* same time are dropped
NotDummy(day) == day[1] # day[2]

\* _split_range_by_day(start, end), on wall clock datetimes
_split_range_by_day(start, end) ==
    SelectSeq(SplitLoop(start, EndOfDay(start), end), NotDummy)

\* tz.localize(naive): the naive datetime read as a wall clock of the zone
Localize(t, off) == t

\* the test of _split_by_day that keeps a benefit as it is
SameDay(b) == Date(b.date_start) = Date(b.date_stop)

RECURSIVE CreateDaysStateUnwritten(_, _, _, _, _)
\* (mutant) the created records keep the state create() gave them
CreateDaysStateUnwritten(st, days, values, benefit_state, off) ==
    IF days = <<>> \/ st.err # "" THEN st
    ELSE LET new == NewBenefit(values.name, values.employee_id, values.benefit_type_id,
                               ToUTC(Head(days)[1], off), ToUTC(Head(days)[2], off))
             created == (st.nextId :> new) @@ st.bs
         IN  IF ~UniqueOK(created)
             THEN [st EXCEPT !.err = "IntegrityError"]
             ELSE CreateDaysStateUnwritten(
                    [st EXCEPT !.bs = created,
                               !.nextId = st.nextId + 1,
                               !.out = Append(st.out, st.nextId)],
                    Tail(days), values, benefit_state, off)

RECURSIVE CreateDays(_, _, _, _, _)
\* the loop of _split_by_day over the days: create(values), then the state.
\* st = [bs, nextId, out, err]; a create that breaks the _unique constraint
\* raises IntegrityError.
CreateDays(st, days, values, benefit_state, off) ==
    IF days = <<>> \/ st.err # "" THEN st
    ELSE LET new == NewBenefit(values.name, values.employee_id, values.benefit_type_id,
                               ToUTC(Head(days)[1], off), ToUTC(Head(days)[2], off))
             created == (st.nextId :> new) @@ st.bs
         IN  IF ~UniqueOK(created)
             THEN [st EXCEPT !.err = "IntegrityError"]
             ELSE CreateDays(
                    [st EXCEPT !.bs = (st.nextId :> write(new, [state |-> benefit_state]))
                                        @@ st.bs,
                               !.nextId = st.nextId + 1,
                               !.out = Append(st.out, st.nextId)],
                    Tail(days), values, benefit_state, off)

\* the body of the loop of _split_by_day for one benefit
SplitOne(st, id, zones) ==
    LET benefit == st.bs[id]
        off == zones[benefit.employee_id]
        values == [ name |-> benefit.name, employee_id |-> benefit.employee_id,
                    benefit_type_id |-> benefit.benefit_type_id ]
        unlinked == [i \in DOMAIN st.bs \ {id} |-> st.bs[i]]
    IN  IF SameDay(benefit)
        THEN [st EXCEPT !.out = Append(st.out, id)]
        ELSE CreateDays([st EXCEPT !.bs = unlinked],
                        _split_range_by_day(Localize(benefit.date_start, off),
                                            Localize(benefit.date_stop, off)),
                        values, benefit.state, off)

RECURSIVE SplitAll(_, _, _)
SplitAll(st, self, zones) ==
    IF self = <<>> \/ st.err # "" THEN st
    ELSE SplitAll(SplitOne(st, Head(self), zones), Tail(self), zones)

\* _split_by_day on the recordset self (a sequence of ids): the store, the
\* id sequence, the records returned and the error raised, if any
_split_by_day(bs, next, self, zones) ==
    SplitAll([bs |-> bs, nextId |-> next, out |-> <<>>, err |-> ""], self, zones)

----------------------------------------------------------------------------
(* Calendar Materializer *)

\* a benefit's start and end in the employee's zone
LocalStart(b, zones) == ToLocal(b.date_start, zones[b.employee_id])
LocalStop(b, zones) == ToLocal(b.date_stop, zones[b.employee_id])

\* the test of _duplicate_to_calendar_attendance that raises ValidationError
SeveralDays(b, zones) == Date(LocalStart(b, zones)) # Date(LocalStop(b, zones))

\* the resource.calendar.attendance of one benefit; hours are kept in
\* minutes (60 times the float the code stores); benefit and benefit_state
\* record which benefit the record was made from and its state then
AttendanceOf(bs, id, zones) ==
    LET b == bs[id]
        start == LocalStart(b, zones)
        end == LocalStop(b, zones)
    IN  [ name |-> b.name,
          dayofweek |-> (Date(start) + 3) % 7,
          date_from |-> Date(start),
          date_to |-> Date(end),
          hour_from |-> TimeOfDay(start) \div MinuteSecs,
          hour_to |-> TimeOfDay(end) \div MinuteSecs,
          day_period |-> IF TimeOfDay(end) \div HourSecs <= 12
                         THEN "morning" ELSE "afternoon",
          resource_id |-> b.employee_id,
          benefit_type_id |-> b.benefit_type_id,
          benefit |-> id, benefit_state |-> b.state ]

RECURSIVE AttendancesOf(_, _, _)
AttendancesOf(bs, self, zones) ==
    IF self = <<>> THEN <<>>
    ELSE <<AttendanceOf(bs, Head(self), zones)>> \o AttendancesOf(bs, Tail(self), zones)

\* _duplicate_to_calendar_attendance on the recordset self: the attendance
\* table and the error raised, if any
_duplicate_to_calendar_attendance(bs, att, self, zones) ==
    IF \E p \in DOMAIN self : SeveralDays(bs[self[p]], zones)
    THEN [att |-> att, err |-> "ValidationError"]
    ELSE [att |-> att \o AttendancesOf(bs, self, zones), err |-> ""]

\* the resource.calendar.leaves of one benefit
CalendarLeaveOf(bs, id) ==
    [ name |-> bs[id].name,
      date_from |-> bs[id].date_start,
      date_to |-> bs[id].date_stop,
      resource_id |-> bs[id].employee_id,
      benefit_type_id |-> bs[id].benefit_type_id,
      benefit |-> id, benefit_state |-> bs[id].state ]

RECURSIVE _duplicate_to_calendar_leave_Always(_, _, _)
\* (mutant) a benefit with a leave reference gets a calendar leave too
_duplicate_to_calendar_leave_Always(bs, cl, self) ==
    IF self = <<>> THEN cl
    ELSE _duplicate_to_calendar_leave_Always(
            bs, Append(cl, CalendarLeaveOf(bs, Head(self))), Tail(self))

RECURSIVE _duplicate_to_calendar_leave(_, _, _)
\* _duplicate_to_calendar_leave on the recordset self
_duplicate_to_calendar_leave(bs, cl, self) ==
    IF self = <<>> THEN cl
    ELSE _duplicate_to_calendar_leave(
            bs,
            IF bs[Head(self)].leave_id = NoLeave
            THEN Append(cl, CalendarLeaveOf(bs, Head(self))) ELSE cl,
            Tail(self))

\* the filters of _duplicate_to_calendar
IsAttendanceBenefit(b) ==
    ~is_leave(b.benefit_type_id) /\ b.benefit_type_id # "attendance"
IsLeaveBenefit(b) == is_leave(b.benefit_type_id)

RECURSIVE AttendanceLoop(_, _, _)
\* the loop of _duplicate_to_calendar over attendance_benefits.
\* st = [bs, nextId, att, err]
AttendanceLoop(st, self, zones) ==
    IF self = <<>> \/ st.err # "" THEN st
    ELSE LET split == _split_by_day(st.bs, st.nextId, <<Head(self)>>, zones)
             dup == _duplicate_to_calendar_attendance(split.bs, st.att, split.out, zones)
         IN  IF split.err # ""
             THEN [st EXCEPT !.err = split.err]
             ELSE AttendanceLoop(
                    [bs |-> split.bs, nextId |-> split.nextId,
                     att |-> dup.att, err |-> dup.err],
                    Tail(self), zones)

\* _duplicate_to_calendar on the recordset self (a sequence of ids)
_duplicate_to_calendar(bs, next, att, cl, self, zones) ==
    LET attendance_benefits ==
            SelectSeq(self, LAMBDA i : IsAttendanceBenefit(bs[i]))
        leave_benefits == SelectSeq(self, LAMBDA i : IsLeaveBenefit(bs[i]))
        st == AttendanceLoop([bs |-> bs, nextId |-> next, att |-> att, err |-> ""],
                             attendance_benefits, zones)
    IN  [ bs |-> st.bs, nextId |-> st.nextId, att |-> st.att, err |-> st.err,
          cl |-> IF st.err # "" THEN cl
                 ELSE _duplicate_to_calendar_leave(st.bs, cl, leave_benefits) ]

----------------------------------------------------------------------------
(* Duplicate-tolerant bulk creator *)

\* A vals dict of vals_list is a record of the fields name, employee_id,
\* benefit_type_id, date_start and date_stop; its datetimes are in UTC, so
\* replace(tzinfo=None) leaves their value. Two dicts with the same items
\* are one element of unique_new_vals.

\* search_read([('date_start', '>=', date_start), ('date_stop', '<=', date_stop)])
SearchWindow(bs, date_start, date_stop) ==
    {i \in DOMAIN bs : bs[i].date_start >= date_start /\ bs[i].date_stop <= date_stop}

\* existing_entries: the keys of the records the window holds
ExistingEntries(bs, date_start, date_stop) ==
    {UniqueKey(bs[i]) : i \in SearchWindow(bs, date_start, date_stop)}

\* the tuple of a vals dict that is looked up in existing_entries
ValsKey(v) == <<v.date_start, v.date_stop, v.employee_id, v.benefit_type_id>>

\* new_vals: the vals dicts whose key is not in existing_entries
NewVals(bs, vals_list, date_start, date_stop) ==
    SelectSeq(vals_list,
              LAMBDA v : ValsKey(v) \notin ExistingEntries(bs, date_start, date_stop))

\* unique_new_vals: the set of tuple(values.items())
UniqueNewVals(new_vals) == {new_vals[k] : k \in DOMAIN new_vals}

RECURSIVE Orders(_)
\* the orders a set can be iterated in
Orders(S) ==
    IF S = {} THEN {<<>>}
    ELSE UNION { {<<m>> \o rest : rest \in Orders(S \ {m})} : m \in S }

RECURSIVE create(_, _)
\* create(vals_list): one insert per vals dict; an insert that breaks the
\* _unique constraint raises IntegrityError. st = [bs, nextId, out, err]
create(st, vals_list) ==
    IF vals_list = <<>> \/ st.err # "" THEN st
    ELSE LET v == Head(vals_list)
             new == NewBenefit(v.name, v.employee_id, v.benefit_type_id,
                               v.date_start, v.date_stop)
             created == (st.nextId :> new) @@ st.bs
         IN  IF ~UniqueOK(created)
             THEN [st EXCEPT !.err = "IntegrityError"]
             ELSE create([st EXCEPT !.bs = created,
                                    !.nextId = st.nextId + 1,
                                    !.out = Append(st.out, st.nextId)],
                         Tail(vals_list))

\* the dicts _safe_duplicate_create hands to create(), as a set
_safe_duplicate_create(bs, vals_list, date_start, date_stop) ==
    UniqueNewVals(NewVals(bs, vals_list, date_start, date_stop))

----------------------------------------------------------------------------
(* Duration: a number of hours, kept in units of 1/3600 hour, so that
   dt.seconds / 3600 is the number dt.seconds and one hour is HourSecs *)

NoDate == -1                           \* a datetime field left empty

\* (mutant) the days of the timedelta are left out
_get_duration_SecondsOnly(date_start, date_stop) ==
    IF date_start = NoDate \/ date_stop = NoDate THEN 0
    ELSE (date_stop - date_start) % DaySecs

\* _get_duration: dt.days * 24 + dt.seconds / 3600, where a timedelta keeps
\* 0 <= seconds < 86400 and the rest, floored, in days
_get_duration(date_start, date_stop) ==
    IF date_start = NoDate \/ date_stop = NoDate THEN 0
    ELSE LET dt == date_stop - date_start
         IN  (dt \div DaySecs) * 24 * HourSecs + (dt % DaySecs)

\* _compute_duration on one record
_compute_duration(b) == _get_duration(b.date_start, b.date_stop)

\* _inverse_duration on one record whose duration was set to `duration`:
\* date_start + relativedelta(hours=duration)
_inverse_duration(b, duration) ==
    IF b.date_start # NoDate /\ duration # 0
    THEN [b EXCEPT !.date_stop = b.date_start + duration]
    ELSE b

----------------------------------------------------------------------------
(* Operations *)

\* The variable last keeps the last call for the properties below: the
\* operation, its ids and vals, what it returned or raised, and for
\* _split_by_day the record it was given and the records it returned.
NoVals == <<>>

Call(op, ids, vals, ret, orig, out) ==
    [op |-> op, ids |-> ids, vals |-> vals, ret |-> ret, orig |-> orig, out |-> out]

\* the values a caller passes to write(): a state, an active flag, or both
WriteInputs ==
    {[state |-> s] : s \in States}
        \cup {[active |-> a] : a \in BOOLEAN}
        \cup {[state |-> s, active |-> a] : s \in States, a \in BOOLEAN}

\* recordset.write(vals)
Write(ids, vals) ==
    /\ benefits' = WriteAll(benefits, ids, vals)
    /\ last' = Call("write", ids, vals, "true", <<>>, <<>>)
    /\ UNCHANGED <<leaves, tz, callers, attendances, calLeaves, nextId>>

\* action_validate(ids) when the search selects nothing: _check_if_error
\* returns False on the empty recordset and the writes touch no record
ValidateNone(ids) ==
    /\ SearchNotValidated(benefits, ids) = {}
    /\ last' = Call("validate", ids, NoVals, "true", <<>>, <<>>)
    /\ UNCHANGED <<benefits, leaves, tz, callers, attendances, calLeaves, nextId>>

\* (mutant) a refused batch still advances its records without a warning
ValidateRefusedPartial(ids, chk) ==
    /\ chk.error
    /\ benefits' = WriteAll(chk.bs,
                            {i \in SearchNotValidated(chk.bs, ids) :
                                ~chk.bs[i].display_warning},
                            [state |-> "validated"])
    /\ last' = Call("validate", ids, NoVals, "false", <<>>, <<>>)
    /\ UNCHANGED <<leaves, tz, callers, attendances, calLeaves, nextId>>

\* action_validate(ids) when _check_if_error reports an error
ValidateRefused(ids, chk) ==
    /\ chk.error
    /\ benefits' = chk.bs
    /\ last' = Call("validate", ids, NoVals, "false", <<>>, <<>>)
    /\ UNCHANGED <<leaves, tz, callers, attendances, calLeaves, nextId>>

\* (mutant) the calendar is fed before the state is written
ValidateAcceptedEarly(ids, self, chk) ==
    /\ ~chk.error
    /\ \E ord0 \in Ordered(benefits, self) :
          LET dup == _duplicate_to_calendar(chk.bs, nextId, attendances,
                                            calLeaves, ord0, tz)
          IN  /\ dup.nextId <= MaxId + 1
              /\ Len(dup.att) + Len(dup.cl) <= MaxCalendar
              /\ dup.err = ""
              /\ benefits' = WriteAll(dup.bs, DOMAIN dup.bs \cap self,
                                      [state |-> "validated"])
              /\ attendances' = dup.att
              /\ calLeaves' = dup.cl
              /\ nextId' = dup.nextId
              /\ last' = Call("validate", ids, NoVals, "true", <<>>, <<>>)
    /\ UNCHANGED <<leaves, tz, callers>>

\* action_validate(ids) when _check_if_error reports none: the state is
\* written, then the calendar is fed; an exception aborts the transaction,
\* which rolls back every write of the call
ValidateAccepted(ids, self, chk) ==
    /\ ~chk.error
    /\ \E ord0 \in Ordered(benefits, self) :
          LET validated == WriteAll(chk.bs, self, [state |-> "validated"])
              dup == _duplicate_to_calendar(validated, nextId, attendances,
                                            calLeaves, ord0, tz)
          IN  /\ dup.nextId <= MaxId + 1
              /\ Len(dup.att) + Len(dup.cl) <= MaxCalendar
              /\ IF dup.err # ""
                 THEN /\ last' = Call("validate", ids, NoVals, dup.err, <<>>, <<>>)
                      /\ UNCHANGED <<benefits, attendances, calLeaves, nextId>>
                 ELSE /\ benefits' = dup.bs
                      /\ attendances' = dup.att
                      /\ calLeaves' = dup.cl
                      /\ nextId' = dup.nextId
                      /\ last' = Call("validate", ids, NoVals, "true", <<>>, <<>>)
    /\ UNCHANGED <<leaves, tz, callers>>

\* action_validate(ids)
ActionValidate(ids) ==
    LET self == SearchNotValidated(benefits, ids)
        cleared == WriteAll(benefits, self, [display_warning |-> FALSE])
        typed == WriteAll(cleared, {i \in self : cleared[i].benefit_type_id = NoType},
                          [display_warning |-> TRUE])
    IN  \/ ValidateNone(ids)
        \/ /\ self # {}
           /\ \E ord \in Ordered(typed, ScheduleSearch(typed, self)) :
              \E pick \in LeavePicks(LeaveRows(cleared, leaves, self)) :
                LET chk == _check_if_error(cleared, leaves, self, ord, pick)
                IN  \/ ValidateRefused(ids, chk)
                    \/ ValidateAccepted(ids, self, chk)

\* benefit._split_by_day() on one record
SplitByDay(id) ==
    LET split == _split_by_day(benefits, nextId, <<id>>, tz)
    IN  /\ split.nextId <= MaxId + 1
        /\ IF split.err # ""
           THEN /\ last' = Call("split", {id}, NoVals, split.err, benefits[id], <<>>)
                /\ UNCHANGED <<benefits, nextId>>
           ELSE /\ benefits' = split.bs
                /\ nextId' = split.nextId
                /\ last' = Call("split", {id}, NoVals, "true", benefits[id], split.out)
        /\ UNCHANGED <<leaves, tz, callers, attendances, calLeaves>>

\* benefits._compute_conflicts_leaves_to_approve() on the records ids
ComputeLeaveConflicts(ids) ==
    \E pick \in LeavePicks(LeaveRows(benefits, leaves, ids)) :
        LET res == _compute_conflicts_leaves_to_approve(benefits, leaves, ids, pick)
        IN  /\ benefits' = res.bs
            /\ last' = Call("leaves", ids, NoVals,
                            IF res.conflict THEN "true" ELSE "false", <<>>, <<>>)
            /\ UNCHANGED <<leaves, tz, callers, attendances, calLeaves, nextId>>

\* _safe_duplicate_create(vals_list, date_start, date_stop) by one caller
\* with no other transaction in between
SafeDuplicateCreate(vals_list, date_start, date_stop) ==
    \E ord \in Orders(_safe_duplicate_create(benefits, vals_list, date_start, date_stop)) :
        LET made == create([bs |-> benefits, nextId |-> nextId, out |-> <<>>, err |-> ""],
                           ord)
        IN  /\ made.nextId <= MaxId + 1
            /\ IF made.err # ""
               THEN /\ last' = Call("create", {}, vals_list, made.err,
                                    <<date_start, date_stop>>, <<>>)
                    /\ UNCHANGED <<benefits, nextId>>
               ELSE /\ benefits' = made.bs
                    /\ nextId' = made.nextId
                    /\ last' = Call("create", {}, vals_list, "true",
                                    <<date_start, date_stop>>, made.out)
            /\ UNCHANGED <<leaves, tz, callers, attendances, calLeaves>>

\* Two callers at once. Each runs _safe_duplicate_create in a transaction of
\* its own: the search_read sees the rows committed so far, the inserts of
\* create() are checked against every row committed by then.
Callers == {"c1", "c2"}
Idle == [pc |-> "idle", vals_list |-> <<>>, new_vals |-> {}]

\* lines 138-151 of caller c: the existence check and the dicts to create
SafeCheck(c, vals_list, date_start, date_stop) ==
    /\ callers[c].pc = "idle"
    /\ callers' = [callers EXCEPT ![c] =
            [ pc |-> "checked", vals_list |-> vals_list,
              new_vals |-> _safe_duplicate_create(benefits, vals_list,
                                                  date_start, date_stop) ]]
    /\ last' = Call("check", {c}, vals_list, "none", <<date_start, date_stop>>, <<>>)
    /\ UNCHANGED <<benefits, leaves, tz, attendances, calLeaves, nextId>>

\* line 152 of caller c: create(new_vals); the IntegrityError of an insert
\* is not caught, it leaves the call and rolls back the caller's inserts
SafeInsert(c) ==
    /\ callers[c].pc = "checked"
    /\ \E ord \in Orders(callers[c].new_vals) :
        LET made == create([bs |-> benefits, nextId |-> nextId, out |-> <<>>, err |-> ""],
                           ord)
        IN  /\ made.nextId <= MaxId + 1
            /\ IF made.err # ""
               THEN /\ last' = Call("insert", {c}, callers[c].vals_list, made.err,
                                    callers[c].new_vals, <<>>)
                    /\ UNCHANGED <<benefits, nextId>>
               ELSE /\ benefits' = made.bs
                    /\ nextId' = made.nextId
                    /\ last' = Call("insert", {c}, callers[c].vals_list, "true",
                                    callers[c].new_vals, made.out)
    /\ callers' = [callers EXCEPT ![c] = Idle]
    /\ UNCHANGED <<leaves, tz, attendances, calLeaves>>

\* benefit.duration = duration: _inverse_duration sets the end, and the
\* duration is computed again from it (last.out)
SetDuration(id, duration) ==
    LET b == _inverse_duration(benefits[id], duration)
    IN  /\ benefits' = [benefits EXCEPT ![id] = b]
        /\ UniqueOK(benefits')
        /\ last' = Call("duration", {id}, [duration |-> duration], "true",
                        benefits[id], <<_compute_duration(b)>>)
        /\ UNCHANGED <<leaves, tz, callers, attendances, calLeaves, nextId>>

\* benefit.date_stop = date_stop, later than the start: _compute_duration
\* gives the duration (last.out)
SetStop(id, date_stop) ==
    LET b == write(benefits[id], [date_stop |-> date_stop])
    IN  /\ date_stop > benefits[id].date_start
        /\ benefits' = [benefits EXCEPT ![id] = b]
        /\ UniqueOK(benefits')
        /\ last' = Call("stop", {id}, [date_stop |-> date_stop], "true",
                        benefits[id], <<_compute_duration(b)>>)
        /\ UNCHANGED <<leaves, tz, callers, attendances, calLeaves, nextId>>

----------------------------------------------------------------------------
(* Stores to start from *)

At(day, hour) == day * DaySecs + hour * HourSecs

NoCall == Call("none", {}, NoVals, "none", <<>>, <<>>)

\* a store of the records 1..n, record i built from fields[i], all as
\* create() and write() leave them
StoreOf(fields) ==
    [i \in DOMAIN fields |->
        write(NewBenefit(i, fields[i].employee_id, fields[i].benefit_type_id,
                         fields[i].span[1], fields[i].span[2]),
              [state |-> fields[i].state])]

Fields(emps, types, states, spans) ==
    [employee_id : emps, benefit_type_id : types, state : states, span : spans]

InitRest(n) ==
    /\ attendances = <<>>
    /\ calLeaves = <<>>
    /\ nextId = n + 1
    /\ callers = [c \in Callers |-> Idle]
    /\ last = NoCall

\* Lifecycle: an attendance benefit, on one day or over two, and a leave
\* benefit of the same employee that overlaps or touches it, with or without
\* a leave request to approve
WorkflowLeaves ==
    { {},
      {[id |-> 1, employee_id |-> "e1", date_from |-> At(1, 14),
        date_to |-> At(1, 15), state |-> "confirm"]} }

Init ==
    /\ \E f1 \in Fields({"e1"}, {"extra", NoType}, {"draft"},
                          {<<At(1, 9), At(1, 12)>>, <<At(0, 22), At(1, 12)>>}),
          f2 \in Fields({"e1"}, {"leave"}, {"draft"},
                        {<<At(1, 11), At(1, 13)>>, <<At(1, 12), At(1, 14)>>}) :
          benefits = StoreOf(<<f1, f2>>)
    /\ UniqueOK(benefits)
    /\ leaves \in WorkflowLeaves
    /\ tz = [e \in Employees |-> 0]
    /\ InitRest(2)

Next ==
    \/ \E id \in DOMAIN benefits, s \in States : Write({id}, [state |-> s])
    \/ \E ids \in SUBSET DOMAIN benefits : ActionValidate(ids)

Spec == Init /\ [][Next]_vars

\* Writes alone: the same stores under every write of a state, an active
\* flag or both, to any records
NextWrite ==
    \E ids \in SUBSET DOMAIN benefits, vals \in WriteInputs :
        ids # {} /\ Write(ids, vals)

SpecWrite == Init /\ [][NextWrite]_vars

\* Conflict detection: three benefits of two employees on one day, some
\* touching, some overlapping, some already validated
DetectSpans ==
    {<<At(1, 9), At(1, 10)>>, <<At(1, 10), At(1, 11)>>, <<At(1, 9), At(1, 11)>>}

InitDetect ==
    /\ \E f1 \in Fields({"e1"}, {"extra", NoType}, {"confirmed", "validated"}, DetectSpans),
          f2 \in Fields({"e1"}, {"extra"}, {"confirmed"}, DetectSpans),
          f3 \in Fields(Employees, {"extra", NoType}, {"confirmed"}, DetectSpans) :
          benefits = StoreOf(<<f1, f2, f3>>)
    /\ UniqueOK(benefits)
    /\ leaves = {}
    /\ tz = [e \in Employees |-> 0]
    /\ InitRest(3)

NextDetect == \E ids \in SUBSET DOMAIN benefits : ActionValidate(ids)

SpecDetect == InitDetect /\ [][NextDetect]_vars

\* Day splitting: one attendance benefit between any two of the instants
\* below, for an employee of any of the zones
Offsets == {-MaxOffsetHours * HourSecs, 0, MaxOffsetHours * HourSecs}
SplitInstants ==
    {day * DaySecs + t : day \in 1..MaxDay,
                         t \in {0, 10 * HourSecs, 23 * HourSecs, DaySecs - 1}}

InitSplit ==
    /\ \E start, stop \in SplitInstants :
          /\ start < stop
          /\ benefits = StoreOf(<<[employee_id |-> "e1", benefit_type_id |-> "extra",
                                   state |-> "confirmed", span |-> <<start, stop>>]>>)
    /\ leaves = {}
    /\ \E off \in Offsets : tz = [e \in Employees |-> off]
    /\ InitRest(1)

NextSplit ==
    \/ \E id \in DOMAIN benefits : SplitByDay(id)
    \/ \E ids \in SUBSET DOMAIN benefits : ActionValidate(ids)

SpecSplit == InitSplit /\ [][NextSplit]_vars

\* Validation alone, from a store with no validated benefit
InitFresh ==
    /\ InitDetect
    /\ \A i \in DOMAIN benefits : benefits[i].state # "validated"

SpecFresh == InitFresh /\ [][NextDetect]_vars

\* Leaves: a benefit of e1 and a leave benefit that touches it, each with or
\* without a leave reference, and one or two leave requests of e1 that lie
\* inside a benefit, touch one or lie apart, in any state
LeaveStates == {"confirm", "validate1", "validate", "refuse"}

LeaveOf(id, span, state) ==
    [id |-> id, employee_id |-> "e1", date_from |-> span[1], date_to |-> span[2],
     state |-> state]

LeaveTables ==
    { {l1} \cup more :
        l1 \in {LeaveOf(1, span, s) :
                    span \in {<<At(1, 14), At(1, 15)>>, <<At(1, 15), At(1, 16)>>,
                              <<At(1, 10), At(1, 11)>>},
                    s \in LeaveStates},
        more \in {{}, {LeaveOf(2, <<At(1, 8), At(1, 9)>>, "confirm")}} }

InitLeaves ==
    /\ \E f1 \in Fields({"e1"}, {"extra", "leave"}, {"confirmed"},
                          {<<At(1, 9), At(1, 12)>>}),
          f2 \in Fields(Employees, {"leave"}, {"confirmed"}, {<<At(1, 12), At(1, 14)>>}),
          l1, l2 \in {NoLeave, 1} :
          benefits = [i \in 1..2 |->
                        [StoreOf(<<f1, f2>>)[i] EXCEPT !.leave_id = <<l1, l2>>[i]]]
    /\ leaves \in LeaveTables
    /\ tz = [e \in Employees |-> 0]
    /\ InitRest(2)

NextLeaves ==
    \/ \E ids \in SUBSET DOMAIN benefits : ComputeLeaveConflicts(ids)
    \/ \E ids \in SUBSET DOMAIN benefits : ActionValidate(ids)

SpecLeaves == InitLeaves /\ [][NextLeaves]_vars

\* Bulk creation: one benefit is persisted; the vals dicts are for its key
\* and for others, two of them for one key under different names, one
\* without a type; the window holds the first day or the first two
CreateSpans == {<<At(1, 9), At(1, 10)>>, <<At(2, 9), At(2, 10)>>}
CreateWindows == {<<At(1, 0), At(2, 0)>>, <<At(1, 0), At(3, 0)>>}

ValsOf(name, type, span) ==
    [ name |-> name, employee_id |-> "e1", benefit_type_id |-> type,
      date_start |-> span[1], date_stop |-> span[2] ]

CreateVals ==
    {ValsOf(8, "extra", span) : span \in CreateSpans}
        \cup {ValsOf(9, "extra", <<At(1, 9), At(1, 10)>>),
              ValsOf(8, NoType, <<At(1, 9), At(1, 10)>>)}

ValsLists(V) == {<<v>> : v \in V} \cup {<<v, w>> : v \in V, w \in V}

InitCreate ==
    /\ \E f1 \in Fields({"e1"}, {"extra"}, {"draft"}, CreateSpans) :
          benefits = StoreOf(<<f1>>)
    /\ leaves = {}
    /\ tz = [e \in Employees |-> 0]
    /\ InitRest(1)

NextCreate ==
    \E vals_list \in ValsLists(CreateVals), window \in CreateWindows :
        SafeDuplicateCreate(vals_list, window[1], window[2])

SpecCreate == InitCreate /\ [][NextCreate]_vars

\* Two callers creating benefits of three days at once, the window holding
\* all of them
RaceVals == {ValsOf(8, "extra", <<At(day, 9), At(day, 10)>>) : day \in 1..3}
RaceLists ==
    {<<v>> : v \in RaceVals}
        \cup {p \in RaceVals \X RaceVals : p[1].date_start < p[2].date_start}

NextRace ==
    \/ \E c \in Callers, vals_list \in RaceLists :
            SafeCheck(c, vals_list, At(1, 0), At(4, 0))
    \/ \E c \in Callers : SafeInsert(c)

SpecRace == InitCreate /\ [][NextRace]_vars

\* Duration: one benefit, its duration or its end set again and again
Durations ==
    {0, HourSecs, 90 * MinuteSecs, 5 * HourSecs, 24 * HourSecs, MaxHours * HourSecs}

WholeHours(duration) == duration > 0 /\ duration % HourSecs = 0

InitDuration ==
    /\ \E start \in {At(1, 0), At(1, 10), At(1, 23)}, d \in Durations \ {0} :
          benefits = StoreOf(<<[employee_id |-> "e1", benefit_type_id |-> "extra",
                                state |-> "draft", span |-> <<start, start + d>>]>>)
    /\ leaves = {}
    /\ tz = [e \in Employees |-> 0]
    /\ InitRest(1)

NextDuration ==
    \/ \E id \in DOMAIN benefits, d \in Durations : SetDuration(id, d)
    \/ \E id \in DOMAIN benefits, d \in Durations :
            SetStop(id, benefits[id].date_start + d)

SpecDuration == InitDuration /\ [][NextDuration]_vars

----------------------------------------------------------------------------
(* Properties *)

\* the records of the store that stand for record i of the store `before`:
\* i itself, or the records _split_by_day made from it
Standing(before, after, i) ==
    IF i \in DOMAIN after THEN {i}
    ELSE {j \in DOMAIN after \ DOMAIN before : after[j].name = before[i].name}

\* benefits a and b of one employee overlap
Overlapping(bs, a, b) ==
    a # b /\ bs[a].employee_id = bs[b].employee_id /\ Overlap(bs[a], bs[b])

\* benefit i overlaps another benefit of its employee, or a leave to approve
InConflict(bs, lvs, i) ==
    \/ \E j \in DOMAIN bs : Overlapping(bs, i, j)
    \/ LeaveRows(bs, lvs, {i}) # {}

\* C1: every action_validate call is all-or-nothing over the records of ids
\* that are not validated yet: if it returns true each of them is validated,
\* if it returns false none of them has changed its lifecycle state.
C1_AllOrNothing ==
    [][last'.op = "validate" =>
        LET sub == SearchNotValidated(benefits, last'.ids)
        IN  /\ last'.ret = "true" =>
                \A i \in sub : \A j \in Standing(benefits, benefits', i) :
                    benefits'[j].state = "validated"
            /\ last'.ret = "false" =>
                \A i \in sub : /\ i \in DOMAIN benefits'
                                /\ benefits'[i].state = benefits[i].state]_vars

\* a refused batch of two pending records, one flagged and one clean
C1_Witness ==
    /\ last.op = "validate" /\ last.ret = "false"
    /\ \E i, j \in last.ids :
          /\ benefits[i].state = "confirmed" /\ benefits[j].state = "confirmed"
          /\ benefits[i].display_warning /\ ~benefits[j].display_warning

\* C2: a validation whose selected records hold two overlapping benefits of
\* one employee flags both and reports the conflict, whatever else is stored.
C2_OverlapFlagged ==
    [][last'.op = "validate" =>
        \A a, b \in SearchNotValidated(benefits, last'.ids) :
            Overlapping(benefits, a, b) =>
                /\ last'.ret = "false"
                /\ benefits'[a].display_warning /\ benefits'[b].display_warning]_vars

UntypedRefused(batch) ==
    /\ last'.ret = "false"
    /\ \A i \in batch : i \in DOMAIN benefits' /\ benefits'[i].state = benefits[i].state
    /\ \A i \in batch :
            ~InConflict(benefits, leaves, i) =>
                (benefits'[i].display_warning <=> benefits[i].benefit_type_id = NoType)

\* C4 as stated: a record without a type anywhere in ids refuses the call.
C4_UntypedInBatch ==
    [][(last'.op = "validate"
            /\ \E i \in last'.ids : benefits[i].benefit_type_id = NoType)
        => UntypedRefused(last'.ids)]_vars

\* C4, amended: when a record of ids that is not validated yet has no
\* benefit type, the call returns false, advances none of the records not
\* validated yet, and of those in no schedule or leave conflict exactly the
\* ones without a type end with the warning flag set.
C4_UntypedInSubset ==
    [][(last'.op = "validate"
            /\ \E i \in SearchNotValidated(benefits, last'.ids) :
                    benefits[i].benefit_type_id = NoType)
        => UntypedRefused(SearchNotValidated(benefits, last'.ids))]_vars

\* a refused batch with a flagged record without a type and a clean typed
\* record left unflagged
C4_Witness ==
    /\ last.op = "validate" /\ last.ret = "false"
    /\ \E i, j \in last.ids :
          /\ benefits[i].state = "confirmed" /\ benefits[j].state = "confirmed"
          /\ benefits[i].benefit_type_id = NoType /\ benefits[i].display_warning
          /\ benefits[j].benefit_type_id # NoType /\ ~benefits[j].display_warning
          /\ ~InConflict(benefits, leaves, i) /\ ~InConflict(benefits, leaves, j)

\* the records table' holds beyond those of table
Created(table, table2) == {table2[k] : k \in (Len(table) + 1)..Len(table2)}

\* C5: calendar records are created only by an action_validate call that
\* returns true, and each from a benefit that is validated at that moment;
\* a call that returns false creates none.
C5_MaterializeAfterValidation ==
    [][LET new == Created(attendances, attendances') \cup Created(calLeaves, calLeaves')
       IN  /\ Len(attendances') >= Len(attendances)
           /\ Len(calLeaves') >= Len(calLeaves)
           /\ new # {} => last'.op = "validate" /\ last'.ret = "true"
           /\ \A r \in new : r.benefit_state = "validated"]_vars

\* a validation has fed both calendars, one record from a split benefit
C5_Witness ==
    /\ last.op = "validate" /\ last.ret = "true"
    /\ calLeaves # <<>>
    /\ \E k \in DOMAIN attendances : attendances[k].benefit \notin 1..2

\* C6: action_validate advances to validated, and materializes, only records
\* that were confirmed before the call; a draft record is left as it is.
C6_OnlyConfirmedAdvance ==
    [][last'.op = "validate" =>
        \A i \in DOMAIN benefits :
            benefits[i].state \notin {"confirmed", "validated"} =>
                /\ i \in DOMAIN benefits'
                /\ benefits'[i].state = benefits[i].state
                /\ \A r \in Created(attendances, attendances')
                            \cup Created(calLeaves, calLeaves') : r.name # benefits[i].name]_vars

\* the edges of the lifecycle
LifecycleEdges ==
    { <<"draft", "confirmed">>, <<"confirmed", "validated">>,
      <<"draft", "cancelled">>, <<"confirmed", "cancelled">>,
      <<"cancelled", "draft">> }

\* C7: under write({'state': s}) and action_validate a benefit's state
\* changes only along the edges of the lifecycle.
C7_LifecycleEdgesOnly ==
    [][\A i \in DOMAIN benefits \cap DOMAIN benefits' :
        benefits'[i].state # benefits[i].state =>
            <<benefits[i].state, benefits'[i].state>> \in LifecycleEdges]_vars

\* C8: a write that sets state to cancelled leaves active false, one that
\* sets it to draft leaves active true, whatever active it passes; any other
\* write leaves active as passed, or as it was when it passes none.
C8_WriteActive ==
    [][last'.op = "write" =>
        \A i \in DOMAIN benefits :
            LET v == last'.vals
                s == IF "state" \in DOMAIN v THEN v.state ELSE "unset"
            IN  benefits'[i].active =
                    IF i \notin last'.ids THEN benefits[i].active
                    ELSE IF s = "cancelled" THEN FALSE
                    ELSE IF s = "draft" THEN TRUE
                    ELSE IF "active" \in DOMAIN v THEN v.active
                    ELSE benefits[i].active]_vars

\* a write of state cancelled with active true has left a record inactive
C8_Witness ==
    /\ last.op = "write"
    /\ DOMAIN last.vals = {"state", "active"}
    /\ last.vals.state = "cancelled" /\ last.vals.active
    /\ \E i \in last.ids : ~benefits[i].active /\ benefits[i].state = "cancelled"

\* the calendar days a benefit spans in its employee's zone
DaysSpanned(b, zones) == Date(LocalStop(b, zones)) - Date(LocalStart(b, zones)) + 1

\* C9: _split_by_day on a benefit spanning N >= 2 calendar days returns N
\* records, the first starting at the original start, the last ending at the
\* original end, each next one starting the second after the previous one
\* ends, none with start = end, for every time of day of start and end.
C9_SplitReconstructs ==
    (last.op = "split" /\ last.ret = "true" /\ DaysSpanned(last.orig, tz) >= 2) =>
        LET out == last.out
            n == Len(out)
        IN  /\ n = DaysSpanned(last.orig, tz)
            /\ benefits[out[1]].date_start = last.orig.date_start
            /\ benefits[out[n]].date_stop = last.orig.date_stop
            /\ \A k \in 1..(n - 1) :
                    benefits[out[k + 1]].date_start = benefits[out[k]].date_stop + 1
            /\ \A k \in 1..n : benefits[out[k]].date_start # benefits[out[k]].date_stop

\* C10: every record _split_by_day returns starts and ends on one calendar
\* date of the employee's zone, and action_validate never raises the
\* ValidationError of _duplicate_to_calendar_attendance.
C10_SplitSingleLocalDay ==
    /\ (last.op = "split" /\ last.ret = "true") =>
            \A k \in DOMAIN last.out : ~SeveralDays(benefits[last.out[k]], tz)
    /\ last.op = "validate" => last.ret # "ValidationError"

\* C11: _safe_duplicate_create returns and has created exactly one record
\* for each key of vals_list that was not persisted and none for a key that
\* was, whatever the store, the vals_list and the window, and the records
\* satisfy the _unique constraint.
C11_OnePerKey ==
    [][last'.op = "create" =>
        LET keys == {ValsKey(last'.vals[k]) : k \in DOMAIN last'.vals}
            persisted == {UniqueKey(benefits[i]) : i \in DOMAIN benefits}
            made == DOMAIN benefits' \ DOMAIN benefits
        IN  /\ last'.ret = "true"
            /\ \A key \in keys :
                  Cardinality({i \in made : UniqueKey(benefits'[i]) = key})
                      = IF key \in persisted THEN 0 ELSE 1
            /\ UniqueOK(benefits')]_vars

\* C12: when another caller has inserted a key between the existence check
\* and the insert of a _safe_duplicate_create call, the call still returns
\* and every key it set out to create is persisted afterwards.
C12_RaceTolerated ==
    [][last'.op = "insert" =>
        /\ last'.ret = "true"
        /\ \A v \in last'.orig :
              \E i \in DOMAIN benefits' : UniqueKey(benefits'[i]) = ValsKey(v)]_vars

\* the leaves to approve of the employee of benefit i whose closed range
\* meets the benefit's
LeaveMatches(bs, lvs, i) ==
    {l \in lvs : /\ l.employee_id = bs[i].employee_id
                 /\ l.state \in {"confirm", "validate1"}
                 /\ l.date_from <= bs[i].date_stop
                 /\ l.date_to >= bs[i].date_start}

\* C13: _compute_conflicts_leaves_to_approve sets the warning flag and the
\* leave reference of exactly the input benefits that have a matching leave
\* (same employee, state confirm or validate1, closed ranges meeting), the
\* reference being one of the matching leaves; every other benefit is left
\* as it was; the result is true iff some input benefit matched.
C13_LeaveConflicts ==
    [][last'.op = "leaves" =>
        /\ DOMAIN benefits' = DOMAIN benefits
        /\ \A i \in DOMAIN benefits :
              IF i \in last'.ids /\ LeaveMatches(benefits, leaves, i) # {}
              THEN /\ benefits'[i].display_warning
                   /\ benefits'[i].leave_id
                        \in {l.id : l \in LeaveMatches(benefits, leaves, i)}
                   /\ benefits'[i] = [benefits[i] EXCEPT
                                        !.display_warning = TRUE,
                                        !.leave_id = benefits'[i].leave_id]
              ELSE benefits'[i] = benefits[i]
        /\ (last'.ret = "true") <=>
              (\E i \in last'.ids : LeaveMatches(benefits, leaves, i) # {})]_vars

\* the call flagged a benefit for a leave that only touches its end and left
\* another input benefit, which meets no leave, unflagged
C13_Witness ==
    /\ last.op = "leaves" /\ last.ret = "true"
    /\ \E i, j \in last.ids :
          /\ benefits[i].display_warning
          /\ \E l \in leaves : l.id = benefits[i].leave_id
                                /\ l.date_from = benefits[i].date_stop
          /\ LeaveMatches(benefits, leaves, j) = {}
          /\ ~benefits[j].display_warning

\* C14: setting the duration to a whole positive number of hours d puts the
\* end at start + d hours and the duration computed from that end is d; and
\* once an end a whole number of hours after the start was set, writing the
\* duration computed from it back as duration leaves that end.
C14_DurationRoundTrip ==
    [][last'.op = "duration" =>
        \A id \in last'.ids :
            /\ WholeHours(last'.vals.duration) =>
                  /\ benefits'[id].date_stop
                        = benefits[id].date_start + last'.vals.duration
                  /\ last'.out = <<last'.vals.duration>>
            /\ ( /\ last.op = "stop"
                 /\ WholeHours(benefits[id].date_stop - benefits[id].date_start)
                 /\ last'.vals.duration = last.out[1] ) =>
                  benefits'[id].date_stop = benefits[id].date_stop]_vars

\* a duration of a whole day was set, the end moved, and the duration read
\* back is that day
C14_Witness ==
    /\ last.op = "duration"
    /\ last.vals.duration = 24 * HourSecs
    /\ last.out = <<24 * HourSecs>>
    /\ \E id \in last.ids :
          /\ benefits[id].date_stop # last.orig.date_stop
          /\ benefits[id].date_stop = benefits[id].date_start + DaySecs

\* C15: when action_validate has returned false, a record of ids that is
\* not validated has its warning flag set.
C15_RefusalShowsFlag ==
    (last.op = "validate" /\ last.ret = "false") =>
        \E i \in SearchNotValidated(benefits, last.ids) : benefits[i].display_warning

\* C16: _split_by_day returns a benefit whose start and end are on one
\* date of the employee's zone as the same record, unchanged, and unlinks
\* one whose start and end are on different dates of that zone.
C16_SplitOnLocalDates ==
    (last.op = "split" /\ last.ret = "true") =>
        \A id \in last.ids :
            IF SeveralDays(last.orig, tz)
            THEN id \notin DOMAIN benefits
            ELSE /\ last.out = <<id>>
                 /\ id \in DOMAIN benefits
                 /\ benefits[id] = last.orig

\* record b has the name, employee and type of record orig and the state
Inherits(b, orig, state) ==
    /\ b.name = orig.name
    /\ b.employee_id = orig.employee_id
    /\ b.benefit_type_id = orig.benefit_type_id
    /\ b.state = state

\* C17: when _split_by_day replaces a benefit, the benefit is gone and each
\* record returned has its name, employee, type and state; the records that
\* replace a benefit of a validated batch have its name, employee and type
\* and are validated.
C17_ReplacementsInherit ==
    [][ /\ (last'.op = "split" /\ last'.ret = "true") =>
              \A id \in last'.ids :
                  last'.out # <<id>> =>
                      /\ id \notin DOMAIN benefits'
                      /\ \A k \in DOMAIN last'.out :
                            /\ last'.out[k] \in DOMAIN benefits' \ DOMAIN benefits
                            /\ Inherits(benefits'[last'.out[k]], benefits[id],
                                        benefits[id].state)
        /\ (last'.op = "validate" /\ last'.ret = "true") =>
              \A j \in DOMAIN benefits' \ DOMAIN benefits :
                  \E i \in SearchNotValidated(benefits, last'.ids) \ DOMAIN benefits' :
                      Inherits(benefits'[j], benefits[i], "validated")]_vars

\* a confirmed benefit was replaced by two or more confirmed records
C17_Witness ==
    /\ last.op = "split" /\ last.ret = "true"
    /\ Len(last.out) >= 2
    /\ last.orig.state = "confirmed"
    /\ \A id \in last.ids : id \notin DOMAIN benefits
    /\ \A k \in DOMAIN last.out : benefits[last.out[k]].state = "confirmed"

\* C18: an action_validate that returns true has created, for each leave
\* benefit it selected, one calendar leave over the benefit's start and end
\* for its employee when the benefit had no leave reference and none when
\* it had one, and no calendar attendance.
C18_LeaveBenefitsToCalendar ==
    [][(last'.op = "validate" /\ last'.ret = "true") =>
        \A i \in SearchNotValidated(benefits, last'.ids) :
            is_leave(benefits[i].benefit_type_id) =>
                LET made == {k \in (Len(calLeaves) + 1)..Len(calLeaves') :
                                calLeaves'[k].benefit = i}
                IN  /\ Cardinality(made)
                          = IF benefits[i].leave_id = NoLeave THEN 1 ELSE 0
                    /\ \A k \in made :
                          /\ calLeaves'[k].date_from = benefits[i].date_start
                          /\ calLeaves'[k].date_to = benefits[i].date_stop
                          /\ calLeaves'[k].resource_id = benefits[i].employee_id
                          /\ calLeaves'[k].name = benefits[i].name
                    /\ \A r \in Created(attendances, attendances') : r.benefit # i]_vars

\* a validated batch of two leave benefits, one without a leave reference
\* and in the calendar, one with a leave reference and not in the calendar
C18_Witness ==
    /\ last.op = "validate" /\ last.ret = "true"
    /\ \E i, j \in last.ids :
          /\ is_leave(benefits[i].benefit_type_id)
          /\ is_leave(benefits[j].benefit_type_id)
          /\ benefits[i].leave_id = NoLeave
          /\ benefits[j].leave_id # NoLeave
          /\ \E k \in DOMAIN calLeaves : calLeaves[k].benefit = i
          /\ \A k \in DOMAIN calLeaves : calLeaves[k].benefit # j

\* no benefit has two records in the calendar tables
OnceInCalendar ==
    /\ \A k, m \in DOMAIN attendances :
            k # m => attendances[k].benefit # attendances[m].benefit
    /\ \A k, m \in DOMAIN calLeaves :
            k # m => calLeaves[k].benefit # calLeaves[m].benefit
    /\ \A k \in DOMAIN attendances, m \in DOMAIN calLeaves :
            attendances[k].benefit # calLeaves[m].benefit

\* C19: an action_validate that follows one with the same ids that returned
\* true returns true, changes no benefit and creates no calendar record;
\* and with nothing but action_validate advancing states, no benefit is
\* materialized twice.
C19_ValidateIdempotent ==
    /\ [][(/\ last.op = "validate" /\ last.ret = "true"
           /\ last'.op = "validate" /\ last'.ids = last.ids) =>
            /\ last'.ret = "true"
            /\ UNCHANGED <<benefits, attendances, calLeaves, nextId>>]_vars
    /\ []OnceInCalendar

\* a batch was validated and materialized, one benefit in each calendar
\* table, and every record of ids is validated: the state a second call
\* with these ids starts from and ends in
C19_Witness ==
    /\ last.op = "validate" /\ last.ret = "true"
    /\ last.ids # {}
    /\ \A i \in last.ids : i \in DOMAIN benefits => benefits[i].state = "validated"
    /\ \E i \in last.ids : \E k \in DOMAIN calLeaves : calLeaves[k].benefit = i
    /\ attendances # <<>>

\* C20: from a store with no validated benefit and with action_validate
\* alone, no two validated benefits of one employee ever overlap.
C20_NoValidatedOverlap ==
    \A a, b \in DOMAIN benefits :
        (benefits[a].state = "validated" /\ benefits[b].state = "validated")
            => ~Overlapping(benefits, a, b)

====
